---- MODULE Spec2Model ----
(***************************************************************************)
(* Model of the two Marikina scripts.                                      *)
(*   MarikinaRoadNetwork.py  (the Network Builder): download the road      *)
(*     graph, keep its largest strongly connected component, save it,      *)
(*     plot it, annotate every edge with a travel time, verify.            *)
(*   HospitalLocations.py    (the Facility Locator): fetch hospitals, save *)
(*     them, load the saved graph, snap every hospital to a node, save.    *)
(* Both scripts are straight-line programs; pc / lpc hold the position of  *)
(* each, and every action is one statement group of the script.            *)
(***************************************************************************)
EXTENDS Integers, Sequences, FiniteSets, TLC

VARIABLES
    osm,                  \* what the map provider answers for place_name
    pc,                   \* position of MarikinaRoadNetwork.py
    G,                    \* the script's graph G
    components,           \* list(nx.strongly_connected_components(G))
    graphml,              \* content of marikina_road_network.graphml
    files,                \* the other files MarikinaRoadNetwork.py has written
    todo,                 \* edges the annotation loop has not visited yet
    uvk,                  \* the loop's u, v, key (<<>> before the first iteration)
    speed,                \* the script's variable speed (0 before it is bound)
    missing_travel_time,  \* the list built at line 83
    err,                  \* the uncaught exception that ended a script
    overpass,             \* what the Overpass API answers
    lpc,                  \* position of HospitalLocations.py
    hospitals_df,         \* rows of hospitals_df
    LG,                   \* the graph loaded by HospitalLocations.py
    row,                  \* index of the next row of the snapping loop
    lookups,              \* outcome of nearest_nodes for every row visited
    hospital_nodes,       \* the list hospital_nodes
    outputs,              \* the files HospitalLocations.py has written
    stdout                \* the messages printed by HospitalLocations.py

builderVars ==
    <<osm, pc, G, components, graphml, files, todo, uvk, speed, missing_travel_time, err>>
locatorVars == <<overpass, lpc, hospitals_df, LG, row, lookups, hospital_nodes, outputs, stdout>>
vars == <<builderVars, locatorVars>>

\* ---------------------------------------------------------------- bounds
MaxNode == 3
MaxEdges == 3
MaxListLen == 2
MaxElements == 2

\* ------------------------------------------------- values of the model
NoGraph == [nodes |-> {}, edges |-> <<>>]
NodeIds == 1..MaxNode

\* A Python dict is a function whose domain is the set of keys present.
Get(d, k, default) == IF k \in DOMAIN d THEN d[k] ELSE default

\* ------------------------------------------------------ exact rationals
Abs(x) == IF x < 0 THEN -x ELSE x

RECURSIVE GCD(_, _)
GCD(a, b) == IF b = 0 THEN a ELSE GCD(b, a % b)

Rat(n, d) ==
    LET g == GCD(Abs(n), Abs(d))
        s == IF d < 0 THEN -1 ELSE 1
    IN  [n |-> (s * n) \div g, d |-> (s * d) \div g]

RatDiv(a, b) == Rat(a.n * b.d, a.d * b.n)
RatMul(a, b) == Rat(a.n * b.n, a.d * b.d)
RatInt(i) == [n |-> i, d |-> 1]

\* ------------------------------------------- str.split() and float(str)
DigitVal ==
    [c \in {"0", "1", "2", "3", "4", "5", "6", "7", "8", "9"} |->
        CASE c = "0" -> 0 [] c = "1" -> 1 [] c = "2" -> 2 [] c = "3" -> 3
          [] c = "4" -> 4 [] c = "5" -> 5 [] c = "6" -> 6 [] c = "7" -> 7
          [] c = "8" -> 8 [] c = "9" -> 9]

\* index of the first blank of s, Len(s) + 1 when it has none
RECURSIVE FirstBlank(_, _)
FirstBlank(s, i) ==
    IF i > Len(s) \/ s[i] = " " THEN i ELSE FirstBlank(s, i + 1)

\* s.split(): the maximal runs of non-blank characters, in order
RECURSIVE split(_)
split(s) ==
    IF s = <<>> THEN <<>>
    ELSE IF s[1] = " " THEN split(Tail(s))
    ELSE LET n == FirstBlank(s, 1)
         IN  <<SubSeq(s, 1, n - 1)>> \o split(SubSeq(s, n, Len(s)))

RECURSIVE lstrip(_)
lstrip(s) == IF s # <<>> /\ s[1] = " " THEN lstrip(Tail(s)) ELSE s

RECURSIVE rstrip(_)
rstrip(s) ==
    IF s # <<>> /\ s[Len(s)] = " " THEN rstrip(SubSeq(s, 1, Len(s) - 1)) ELSE s

RECURSIVE Numeral(_)
Numeral(s) == IF s = <<>> THEN 0 ELSE 10 * Numeral(SubSeq(s, 1, Len(s) - 1)) + DigitVal[s[Len(s)]]

\* float(s) of a str: blanks stripped, an optional sign, then digits.
\* [ok |-> FALSE] stands for ValueError.  (The strings of the model hold no
\* '.', 'e', '_' and spell neither inf nor nan.)
float(s) ==
    LET t == rstrip(lstrip(s))
        signed == t # <<>> /\ t[1] \in {"-", "+"}
        body == IF signed THEN Tail(t) ELSE t
    IN  IF body # <<>> /\ \A i \in 1..Len(body) : body[i] \in DOMAIN DigitVal
        THEN [ok |-> TRUE,
              v |-> IF signed /\ t[1] = "-" THEN -Numeral(body) ELSE Numeral(body)]
        ELSE [ok |-> FALSE, v |-> 0]

\* --------------------------------------------------- attribute variants
\* highway: a str or a list of str.  maxspeed: a str (kept as its
\* characters), a list of str, or a number.
HwStr(s) == [t |-> "str", s |-> s, l |-> <<>>]
HwList(l) == [t |-> "list", s |-> "", l |-> l]
MsStr(s) == [t |-> "str", s |-> s, l |-> <<>>, n |-> 0]
MsList(l) == [t |-> "list", s |-> <<>>, l |-> l, n |-> 0]
MsNum(n) == [t |-> "num", s |-> <<>>, l |-> <<>>, n |-> n]
MsNone == [t |-> "None", s |-> <<>>, l |-> <<>>, n |-> 0]

\* Python truthiness of a maxspeed value (line 56)
Truthy(maxspeed) ==
    CASE maxspeed.t = "None" -> FALSE
      [] maxspeed.t = "str" -> maxspeed.s # <<>>
      [] maxspeed.t = "list" -> maxspeed.l # <<>>
      [] maxspeed.t = "num" -> maxspeed.n # 0

\* ------------------------------------------------------- default_speeds
default_speeds ==
    [h \in {"motorway", "trunk", "primary", "secondary", "tertiary",
            "residential", "unclassified"} |->
        CASE h = "motorway" -> 80 [] h = "trunk" -> 60 [] h = "primary" -> 50
          [] h = "secondary" -> 40 [] h = "tertiary" -> 35
          [] h = "residential" -> 30 [] h = "unclassified" -> 30]

\* lines 52-54: the road class of an edge
ResolveHighway(data) ==
    LET highway == Get(data, "highway", HwStr("unclassified"))
    IN  IF highway.t = "list" THEN highway.l[1] ELSE highway.s

DefaultSpeed(data) == Get(default_speeds, ResolveHighway(data), 30)

\* lines 64-71: the for/else over a list-valued maxspeed
RECURSIVE FirstFloat(_, _)
FirstFloat(l, data) ==
    IF l = <<>> THEN DefaultSpeed(data)
    ELSE IF float(l[1]).ok THEN float(l[1]).v
    ELSE FirstFloat(Tail(l), data)

\* the str branch without split(): float(speed)
SpeedOfStrUnsplit(s, data) ==
    IF float(s).ok THEN float(s).v ELSE DefaultSpeed(data)

\* lines 57-61: the str branch
SpeedOfStr(s, data) ==
    LET tokens == split(s)
    IN  IF tokens # <<>> /\ float(tokens[1]).ok
        THEN float(tokens[1]).v
        ELSE DefaultSpeed(data)

\* lines 55-78: the value of speed when line 79 is reached
ResolveSpeed(data) ==
    LET maxspeed == Get(data, "maxspeed", MsNone)
    IN  IF Truthy(maxspeed)
        THEN CASE maxspeed.t = "str" -> SpeedOfStr(maxspeed.s, data)
               [] maxspeed.t = "list" -> FirstFloat(maxspeed.l, data)
               [] maxspeed.t = "num" -> maxspeed.n
        ELSE DefaultSpeed(data)

\* hours taken for minutes: (length / 1000) / (speed / 60)
TravelTimePerMinute(length, kmh) ==
    RatDiv(Rat(length, 1000), Rat(kmh, 60))

\* line 79: (length / 1000) / (speed / 3600), for a speed other than 0
TravelTime(length, kmh) ==
    RatDiv(Rat(length, 1000), Rat(kmh, 3600))

\* --------------------------------------------------------------- graphs
\* A graph is [nodes, edges]; edges maps each <<u, v, key>> to its dict.
Edges(g) == DOMAIN g.edges

\* the nodes one directed edge away from S, with S
Succ(g, S) == S \cup {e[2] : e \in {f \in Edges(g) : f[1] \in S}}

RECURSIVE ReachFrom(_, _)
ReachFrom(g, S) ==
    LET T == Succ(g, S) IN IF T = S THEN S ELSE ReachFrom(g, T)

\* nx.strongly_connected_components(G), as a set of node sets
strongly_connected_components(g) ==
    {{m \in g.nodes : m \in ReachFrom(g, {n}) /\ n \in ReachFrom(g, {m})} :
        n \in g.nodes}

\* nx.is_strongly_connected(G) of a graph with at least one node
is_strongly_connected(g) ==
    \A a, b \in g.nodes : b \in ReachFrom(g, {a})

\* a subgraph that keeps every edge leaving S
subgraph_by_source(g, S) ==
    [nodes |-> g.nodes \cap S,
     edges |-> [e \in {f \in Edges(g) : f[1] \in S} |-> g.edges[e]]]

\* G.subgraph(S).copy(): the induced subgraph
subgraph(g, S) ==
    [nodes |-> g.nodes \cap S,
     edges |-> [e \in {f \in Edges(g) : f[1] \in S /\ f[2] \in S} |-> g.edges[e]]]

\* max(components, key=len): the first component of greatest size
MaxByLen(comps) ==
    LET i == CHOOSE i \in 1..Len(comps) :
                /\ \A j \in 1..Len(comps) : Cardinality(comps[j]) <= Cardinality(comps[i])
                /\ \A j \in 1..(i - 1) : Cardinality(comps[j]) < Cardinality(comps[i])
    IN  comps[i]

\* the orders a set can be enumerated in
Orderings(S) ==
    {s \in [1..Cardinality(S) -> S] : \A i, j \in 1..Cardinality(S) : s[i] = s[j] => i = j}

\* ------------------------------------------------ inputs of the builder
\* "30 km/h", "20", "0", "-20", " 40 ", "50mph", " ", "bad", "worse",
\* "not-a-number", as their characters
S30kmh == <<"3", "0", " ", "k", "m", "/", "h">>
S20 == <<"2", "0">>
S0 == <<"0">>
SNeg20 == <<"-", "2", "0">>
SPadded40 == <<" ", "4", "0", " ">>
S50mph == <<"5", "0", "m", "p", "h">>
SBlank == <<" ">>
SBad == <<"b", "a", "d">>
SWorse == <<"w", "o", "r", "s", "e">>
SNotANumber == <<"n", "o", "t", "-", "a", "-", "n", "u", "m", "b", "e", "r">>

MaxspeedStrings ==
    {<<>>, S30kmh, S20, S0, SNeg20, SPadded40, S50mph, SBlank, SBad, SNotANumber}
ListItems == {S20, S0, SNeg20, SBad, SWorse}

SeqsUpTo(S, n) == UNION {[1..k -> S] : k \in 0..n}

Maxspeeds ==
    {MsStr(s) : s \in MaxspeedStrings}
        \cup {MsList(l) : l \in SeqsUpTo(ListItems, MaxListLen)}
        \cup {MsNum(50), MsNum(0)}

Highways ==
    {HwStr(h) : h \in DOMAIN default_speeds \cup {"service"}}
        \cup {HwList(<<"primary", "residential">>), HwList(<<"service", "trunk">>)}

\* the dicts that hold key k with a value of V, or do not hold it
Opt(k, V) == {<<>>} \cup {k :> v : v \in V}

EdgeData ==
    {a @@ b @@ c : a \in Opt("length", {0, 1000}),
                   b \in Opt("highway", Highways),
                   c \in Opt("maxspeed", Maxspeeds)}

PlainData == ("length" :> 1000) @@ ("highway" :> HwStr("residential"))
PostedData ==
    ("length" :> 1000) @@ ("highway" :> HwStr("motorway")) @@ ("maxspeed" :> MsStr(S30kmh))

\* every graph on at most MaxNode nodes and MaxEdges edges, plain attributes
TopoGraphs ==
    UNION {{[nodes |-> N, edges |-> [e \in E |-> PlainData]] :
                E \in {F \in SUBSET (N \X N \X {0}) : Cardinality(F) <= MaxEdges}} :
            N \in SUBSET NodeIds}

\* one node with one or two parallel loops; the first carries any attributes,
\* the second one of a few
AttrGraphs ==
    {[nodes |-> {1}, edges |-> (<<1, 1, 0>> :> d)] : d \in EdgeData}
        \cup {[nodes |-> {1}, edges |-> (<<1, 1, 0>> :> d) @@ (<<1, 1, 1>> :> d2)] :
                d \in EdgeData,
                d2 \in {<<>>, "length" :> 0, "length" :> 1000, PostedData}}

OsmAnswers ==
    {[ok |-> FALSE, g |-> NoGraph]}
        \cup {[ok |-> TRUE, g |-> g] : g \in TopoGraphs \cup AttrGraphs}

\* ---------------------------------------------- MarikinaRoadNetwork.py
\* lines 9-13
Download ==
    /\ UNCHANGED locatorVars
    /\ pc = "download"
    /\ IF osm.ok
       THEN G' = osm.g /\ pc' = "components"
       ELSE G' = G /\ pc' = "exit"
    /\ UNCHANGED <<osm, components, graphml, files, todo, uvk, speed, missing_travel_time, err>>

\* lines 16-20; the order of the enumeration is networkx's
ListComponents ==
    /\ UNCHANGED locatorVars
    /\ pc = "components"
    /\ components' \in Orderings(strongly_connected_components(G))
    /\ pc' = "reduce"
    /\ UNCHANGED <<osm, G, graphml, files, todo, uvk, speed, missing_travel_time, err>>

\* a reducer that rebuilds G as a simple digraph: parallel edges collapse
ReduceCollapsingParallelEdges ==
    /\ UNCHANGED locatorVars
    /\ pc = "reduce"
    /\ IF G.nodes = {}
       THEN G' = G /\ pc' = "crashed" /\ err' = "NetworkXPointlessConcept"
       ELSE /\ G' = LET H == IF is_strongly_connected(G) THEN G
                              ELSE subgraph(G, MaxByLen(components))
                    IN  [H EXCEPT !.edges =
                            [e \in {f \in Edges(H) : f[3] = 0} |-> H.edges[e]]]
            /\ pc' = "save"
            /\ err' = err
    /\ UNCHANGED <<osm, components, graphml, files, todo, uvk, speed, missing_travel_time>>

\* lines 23-25; nx.is_strongly_connected raises on the null graph
Reduce ==
    /\ UNCHANGED locatorVars
    /\ pc = "reduce"
    /\ IF G.nodes = {}
       THEN G' = G /\ pc' = "crashed" /\ err' = "NetworkXPointlessConcept"
       ELSE /\ G' = IF is_strongly_connected(G) THEN G
                    ELSE subgraph(G, MaxByLen(components))
            /\ pc' = "save"
            /\ err' = err
    /\ UNCHANGED <<osm, components, graphml, files, todo, uvk, speed, missing_travel_time>>

\* line 28
SaveGraphml ==
    /\ UNCHANGED locatorVars
    /\ pc = "save"
    /\ graphml' = [exists |-> TRUE, g |-> G]
    /\ pc' = "plot"
    /\ UNCHANGED <<osm, G, components, files, todo, uvk, speed, missing_travel_time, err>>

\* lines 31-39; line 48 starts the loop over G.edges
PlotAndCoverage ==
    /\ UNCHANGED locatorVars
    /\ pc = "plot"
    /\ files' = files \cup {"marikina_road_network.png"}
    /\ todo' = Edges(G)
    /\ pc' = "annotate"
    /\ UNCHANGED <<osm, G, components, graphml, uvk, speed, missing_travel_time, err>>

\* lines 48-80, one iteration of the loop; G.edges is visited in any order
AnnotateEdge ==
    /\ UNCHANGED locatorVars
    /\ pc = "annotate"
    /\ \E e \in todo :
        LET data == G.edges[e]
            length == Get(data, "length", 0)
        IN  /\ todo' = todo \ {e}
            /\ uvk' = e
            /\ IF length = 0
               THEN UNCHANGED <<G, pc, err, speed>>
               ELSE /\ speed' = ResolveSpeed(data)
                    /\ IF speed' = 0
                       THEN G' = G /\ pc' = "crashed" /\ err' = "ZeroDivisionError"
                       ELSE /\ G' = [G EXCEPT !.edges[e] =
                                        ("travel_time" :> TravelTime(length, speed')) @@ data]
                            /\ UNCHANGED <<pc, err>>
    /\ UNCHANGED <<osm, components, graphml, files, missing_travel_time>>

\* lines 83-94
VerifyTravelTime ==
    /\ UNCHANGED locatorVars
    /\ pc = "annotate"
    /\ todo = {}
    /\ missing_travel_time' = {e \in Edges(G) : "travel_time" \notin DOMAIN G.edges[e]}
    /\ pc' = "done"
    /\ UNCHANGED <<osm, G, components, graphml, files, todo, uvk, speed, err>>

BuilderIdle ==
    /\ pc = "idle"
    /\ osm = [ok |-> FALSE, g |-> NoGraph]
    /\ G = NoGraph
    /\ components = <<>>
    /\ files = {}
    /\ todo = {}
    /\ uvk = <<>>
    /\ speed = 0
    /\ missing_travel_time = {}

LocatorIdle ==
    /\ lpc = "idle"
    /\ overpass = [ok |-> FALSE, elements |-> <<>>]
    /\ hospitals_df = <<>>
    /\ LG = NoGraph
    /\ row = 0
    /\ lookups = <<>>
    /\ hospital_nodes = <<>>
    /\ outputs = {}
    /\ stdout = <<>>

Init ==
    /\ osm \in OsmAnswers
    /\ pc = "download"
    /\ G = NoGraph
    /\ components = <<>>
    /\ graphml = [exists |-> FALSE, g |-> NoGraph]
    /\ files = {}
    /\ todo = {}
    /\ uvk = <<>>
    /\ speed = 0
    /\ missing_travel_time = {}
    /\ err = "None"
    /\ LocatorIdle

Next ==
    \/ Download
    \/ ListComponents
    \/ Reduce
    \/ SaveGraphml
    \/ PlotAndCoverage
    \/ AnnotateEdge
    \/ VerifyTravelTime

Spec == Init /\ [][Next]_vars

\* ------------------------------------------------ inputs of the locator
\* An Overpass element: a dict with 'tags' (a dict that may hold 'name'),
\* and 'lat'/'lon' (nodes) or 'center' (ways and relations).
Coordinates ==
    {<<>>,
     ("lat" :> 14) @@ ("lon" :> 121),
     ("lat" :> 0) @@ ("lon" :> 121),
     "center" :> (("lat" :> 14) @@ ("lon" :> 121))}

Elements ==
    {("tags" :> t) @@ c : t \in Opt("name", {"Amang Rodriguez"}), c \in Coordinates}

OverpassAnswers ==
    {[ok |-> FALSE, elements |-> <<>>]}
        \cup {[ok |-> TRUE, elements |-> els] : els \in SeqsUpTo(Elements, MaxElements)}

\* the graphs a finished run of MarikinaRoadNetwork.py can have saved: here,
\* the directed ring on 1..k
Ring(k) ==
    [nodes |-> 1..k,
     edges |-> [e \in {<<u, (u % k) + 1, 0>> : u \in 1..k} |-> PlainData]]

GraphmlFiles ==
    {[exists |-> FALSE, g |-> NoGraph]}
        \cup {[exists |-> TRUE, g |-> Ring(k)] : k \in 1..MaxNode}

\* what ox.distance.nearest_nodes may do for one row: return a node id, in
\* the graph or not, or raise
NearestNodes ==
    {[raised |-> FALSE, node |-> n] : n \in 1..(MaxNode + 1)}
        \cup {[raised |-> TRUE, node |-> 0]}

\* ------------------------------------------------ HospitalLocations.py
Msg(text, name) == [msg |-> text, name |-> name]

\* x or y (lines 38-39); None and 0 are falsy alike and are both written 0
Or(x, y) == IF x # 0 THEN x ELSE y

\* lines 36-41
RECURSIVE ParseElements(_)
ParseElements(els) ==
    IF els = <<>> THEN <<>>
    ELSE LET element == Head(els)
             name == Get(element["tags"], "name", "Unnamed")
             lat == Or(Get(element, "lat", 0), Get(Get(element, "center", <<>>), "lat", 0))
             lon == Or(Get(element, "lon", 0), Get(Get(element, "center", <<>>), "lon", 0))
         IN  (IF lat # 0 /\ lon # 0
              THEN <<[name |-> name, latitude |-> lat, longitude |-> lon]>>
              ELSE <<>>) \o ParseElements(Tail(els))

\* lines 26-32
Fetch ==
    /\ UNCHANGED builderVars
    /\ lpc = "fetch"
    /\ IF overpass.ok
       THEN lpc' = "parse" /\ stdout' = stdout
       ELSE /\ lpc' = "exit"
            /\ stdout' = Append(stdout, Msg("Error fetching hospital data", ""))
    /\ UNCHANGED <<overpass, hospitals_df, LG, row, lookups, hospital_nodes, outputs>>

\* lines 35-50
ParseHospitals ==
    /\ UNCHANGED builderVars
    /\ lpc = "parse"
    /\ hospitals_df' = ParseElements(overpass.elements)
    /\ IF hospitals_df' = <<>>
       THEN /\ lpc' = "exit"
            /\ stdout' = Append(stdout, Msg("No hospitals found.", ""))
            /\ outputs' = outputs
       ELSE /\ lpc' = "load"
            /\ stdout' = Append(stdout, Msg("Hospital Locations:", ""))
            /\ outputs' = outputs \cup {"marikina_hospitals.csv"}
    /\ UNCHANGED <<overpass, LG, row, lookups, hospital_nodes>>

\* lines 53-57; line 61 starts the loop over the rows
LoadGraph ==
    /\ UNCHANGED builderVars
    /\ lpc = "load"
    /\ IF graphml.exists
       THEN LG' = graphml.g /\ row' = 1 /\ lpc' = "snap" /\ stdout' = stdout
       ELSE /\ lpc' = "exit"
            /\ stdout' = Append(stdout, Msg("Error loading graph", ""))
            /\ UNCHANGED <<LG, row>>
    /\ UNCHANGED <<overpass, hospitals_df, lookups, hospital_nodes, outputs>>

\* the loop without the membership test of line 65
SnapHospitalUnchecked ==
    /\ UNCHANGED builderVars
    /\ lpc = "snap"
    /\ row <= Len(hospitals_df)
    /\ \E nearest \in NearestNodes :
        LET r == hospitals_df[row]
        IN  /\ lookups' = Append(lookups, nearest)
            /\ IF nearest.raised
               THEN /\ stdout' = Append(stdout, Msg("Error snapping hospital", r.name))
                    /\ hospital_nodes' = hospital_nodes
               ELSE /\ hospital_nodes' = Append(hospital_nodes,
                            [name |-> r.name, latitude |-> r.latitude,
                             longitude |-> r.longitude, node_id |-> nearest.node])
                    /\ stdout' = stdout
    /\ row' = row + 1
    /\ UNCHANGED <<overpass, lpc, hospitals_df, LG, outputs>>

\* lines 61-75, one iteration of the loop
SnapHospital ==
    /\ UNCHANGED builderVars
    /\ lpc = "snap"
    /\ row <= Len(hospitals_df)
    /\ \E nearest \in NearestNodes :
        LET r == hospitals_df[row]
        IN  /\ lookups' = Append(lookups, nearest)
            /\ IF nearest.raised
               THEN /\ stdout' = Append(stdout, Msg("Error snapping hospital", r.name))
                    /\ hospital_nodes' = hospital_nodes
               ELSE IF nearest.node \in LG.nodes
               THEN /\ hospital_nodes' = Append(hospital_nodes,
                            [name |-> r.name, latitude |-> r.latitude,
                             longitude |-> r.longitude, node_id |-> nearest.node])
                    /\ stdout' = stdout
               ELSE /\ stdout' = Append(stdout, Msg("Warning: maps to node outside graph", r.name))
                    /\ hospital_nodes' = hospital_nodes
    /\ row' = row + 1
    /\ UNCHANGED <<overpass, lpc, hospitals_df, LG, outputs>>

\* the CSV written before the emptiness test
SaveHospitalNodesFirst ==
    /\ UNCHANGED builderVars
    /\ lpc = "snap"
    /\ row > Len(hospitals_df)
    /\ outputs' = outputs \cup {"marikina_hospital_nodes.csv"}
    /\ IF hospital_nodes = <<>>
       THEN /\ lpc' = "exit"
            /\ stdout' = Append(stdout, Msg("No hospitals could be snapped to the graph.", ""))
       ELSE /\ lpc' = "validate"
            /\ stdout' = Append(stdout, Msg("Hospital Nodes (Snapped to Graph):", ""))
    /\ UNCHANGED <<overpass, hospitals_df, LG, row, lookups, hospital_nodes>>

\* lines 78-84
SaveHospitalNodes ==
    /\ UNCHANGED builderVars
    /\ lpc = "snap"
    /\ row > Len(hospitals_df)
    /\ IF hospital_nodes = <<>>
       THEN /\ lpc' = "exit"
            /\ stdout' = Append(stdout, Msg("No hospitals could be snapped to the graph.", ""))
            /\ outputs' = outputs
       ELSE /\ lpc' = "validate"
            /\ stdout' = Append(stdout, Msg("Hospital Nodes (Snapped to Graph):", ""))
            /\ outputs' = outputs \cup {"marikina_hospital_nodes.csv"}
    /\ UNCHANGED <<overpass, hospitals_df, LG, row, lookups, hospital_nodes>>

\* lines 87-93
RECURSIVE Validation(_, _)
Validation(rows, g) ==
    IF rows = <<>> THEN <<>>
    ELSE <<Msg(IF Head(rows).node_id \in g.nodes THEN "valid" ELSE "not in graph",
               Head(rows).name)>> \o Validation(Tail(rows), g)

\* lines 87-118
ValidateAndPlot ==
    /\ UNCHANGED builderVars
    /\ lpc = "validate"
    /\ stdout' = stdout \o Validation(hospital_nodes, LG)
    /\ outputs' = outputs \cup {"marikina_hospitals_plot.png"}
    /\ lpc' = "done"
    /\ UNCHANGED <<overpass, hospitals_df, LG, row, lookups, hospital_nodes>>

InitLocator ==
    /\ BuilderIdle
    /\ graphml \in GraphmlFiles
    /\ err = "None"
    /\ overpass \in OverpassAnswers
    /\ lpc = "fetch"
    /\ hospitals_df = <<>>
    /\ LG = NoGraph
    /\ row = 0
    /\ lookups = <<>>
    /\ hospital_nodes = <<>>
    /\ outputs = {}
    /\ stdout = <<>>

NextLocator ==
    \/ Fetch
    \/ ParseHospitals
    \/ LoadGraph
    \/ SnapHospital
    \/ SaveHospitalNodes
    \/ ValidateAndPlot

SpecLocator == InitLocator /\ [][NextLocator]_vars

\* =============================================================== claims
\* ------------------------------------------ helpers of the statements
HasTravelTime(g, e) == "travel_time" \in DOMAIN g.edges[e]
LengthOf(g, e) == Get(g.edges[e], "length", 0)

\* strong connectivity, from the transitive closure of the edge relation
RECURSIVE Closure(_)
Closure(R) ==
    LET R2 == R \cup {<<x[1][1], x[2][2]>> : x \in {y \in R \X R : y[1][2] = y[2][1]}}
    IN  IF R2 = R THEN R ELSE Closure(R2)

EveryNodeReachesEveryNode(g) ==
    LET R == Closure({<<e[1], e[2]>> : e \in Edges(g)})
    IN  \A a, b \in g.nodes : a = b \/ <<a, b>> \in R

\* the two nodes reach each other
SameComponent(g, a, b) ==
    LET R == Closure({<<e[1], e[2]>> : e \in Edges(g)})
    IN  a = b \/ (<<a, b>> \in R /\ <<b, a>> \in R)

Visited(e) == pc \in {"annotate", "done", "crashed"} /\ e \in Edges(G) \ todo

\* C1: every edge of the graph written to marikina_road_network.graphml
\* carries travel_time, because the annotation precedes the save.  Stated
\* for a finished run and, granting the gap of C9, for the edges with a
\* length other than 0.
C1_PersistedEdgesCarryTravelTime ==
    (pc = "done" /\ graphml.exists) =>
        \A e \in Edges(graphml.g) :
            LengthOf(graphml.g, e) # 0 => HasTravelTime(graphml.g, e)

\* C2: for a graph with at least two strongly connected components the
\* reducer keeps a graph whose node count is the greatest component size
\* of the enumeration, whose edges are exactly the input's edges with both
\* ends in the selected component, and which is strongly connected.
C2_ReducerKeepsLargestComponent ==
    (pc = "save" /\ Len(components) >= 2) =>
        /\ \E i \in 1..Len(components) : G.nodes = components[i]
        /\ \A i \in 1..Len(components) :
                Cardinality(components[i]) <= Cardinality(G.nodes)
        /\ \A a, b \in osm.g.nodes :
                a \in G.nodes => (b \in G.nodes <=> SameComponent(osm.g, a, b))
        /\ Edges(G) = {e \in Edges(osm.g) : e[1] \in G.nodes /\ e[2] \in G.nodes}
        /\ \A e \in Edges(G) : G.edges[e] = osm.g.edges[e]
        /\ EveryNodeReachesEveryNode(G)

C2_Witness ==
    /\ pc = "save"
    /\ Len(components) = 2
    /\ Cardinality(G.nodes) = 2
    /\ Cardinality(Edges(osm.g)) = 3
    /\ Cardinality(Edges(G)) = 2

\* C3: after component reduction and travel-time annotation the graph is
\* strongly connected and every edge has a travel_time that is a
\* non-negative number, whatever length, highway and maxspeed the edges
\* carry.  Stated, granting the gap of C9, for the edges with a length
\* other than 0: the loop gives each a travel_time >= 0 and does not stop.
C3_ProcessedGraphInvariant ==
    /\ \A e \in Edges(G) :
            (Visited(e) /\ LengthOf(G, e) # 0) =>
                HasTravelTime(G, e) /\ G.edges[e]["travel_time"].n >= 0
    /\ pc = "done" => EveryNodeReachesEveryNode(G)

\* C4: on a graph without nodes the reducer enumerates zero components,
\* raises nothing, leaves the graph alone, and the run goes on.
C4_EmptyGraphIsNoOp ==
    (osm.ok /\ osm.g.nodes = {} /\ pc \notin {"download", "components", "reduce"}) =>
        /\ components = <<>>
        /\ G = osm.g
        /\ err = "None"
        /\ pc \in {"save", "plot", "annotate", "done"}

\* the first element of l that parses as a number > 0, else the default
RECURSIVE FirstPositive(_, _)
FirstPositive(l, fallback) ==
    IF l = <<>> THEN fallback
    ELSE IF float(l[1]).ok /\ float(l[1]).v > 0 THEN float(l[1]).v
    ELSE FirstPositive(Tail(l), fallback)

\* the default table of the statement, for a road class h
TableSpeed(h) ==
    CASE h = "motorway" -> 80 [] h = "trunk" -> 60 [] h = "primary" -> 50
      [] h = "secondary" -> 40 [] h = "tertiary" -> 35 [] h = "residential" -> 30
      [] h = "unclassified" -> 30 [] OTHER -> 30

\* the road class of an edge: the first element of a list-valued highway,
\* unclassified when the edge has none
RoadClass(data) ==
    IF "highway" \notin DOMAIN data THEN "unclassified"
    ELSE IF data["highway"].t = "list" THEN Head(data["highway"].l)
    ELSE data["highway"].s

\* the iteration just made bound speed for an edge whose maxspeed is of kind t
JustResolved(t) ==
    /\ pc \in {"annotate", "done", "crashed"}
    /\ uvk # <<>>
    /\ LengthOf(G, uvk) # 0
    /\ "maxspeed" \in DOMAIN G.edges[uvk]
    /\ G.edges[uvk]["maxspeed"].t = t

\* C5: for a list-valued maxspeed the resolved speed is the first element
\* that parses as a positive number (non-numeric, zero and negative
\* elements are passed over), else the default of the road class, else 30.
C5_ListTakesFirstPositive ==
    JustResolved("list") =>
        speed = FirstPositive(G.edges[uvk]["maxspeed"].l, TableSpeed(RoadClass(G.edges[uvk])))

\* a str whose first blank-separated token is an optionally signed numeral
RECURSIVE DropBlanks(_)
DropBlanks(s) == IF s # <<>> /\ Head(s) = " " THEN DropBlanks(Tail(s)) ELSE s

RECURSIVE TakeToken(_)
TakeToken(s) == IF s = <<>> \/ Head(s) = " " THEN <<>> ELSE <<Head(s)>> \o TakeToken(Tail(s))

Unsigned(tok) == IF tok # <<>> /\ Head(tok) \in {"+", "-"} THEN Tail(tok) ELSE tok

NumericLeading(s) ==
    LET digits == Unsigned(TakeToken(DropBlanks(s)))
    IN  digits # <<>> /\ \A i \in 1..Len(digits) : digits[i] \in DOMAIN DigitVal

RECURSIVE Magnitude(_, _)
Magnitude(digits, acc) ==
    IF digits = <<>> THEN acc ELSE Magnitude(Tail(digits), 10 * acc + DigitVal[Head(digits)])

LeadingNumber(s) ==
    LET tok == TakeToken(DropBlanks(s))
        m == Magnitude(Unsigned(tok), 0)
    IN  IF Head(tok) = "-" THEN -m ELSE m

\* C8: for a str maxspeed that leads with a number ("30 km/h") the resolved
\* speed is that number; for a str that does not parse it is the default of
\* the road class (motorway 80, trunk 60, primary 50, secondary 40,
\* tertiary 35, residential 30, unclassified 30, any other 30; a list-valued
\* highway counts as its first element), and the loop goes on.
C8_StrSpeed ==
    JustResolved("str") =>
        LET s == G.edges[uvk]["maxspeed"].s
        IN  IF NumericLeading(s)
            THEN speed = LeadingNumber(s)
            ELSE /\ speed = TableSpeed(RoadClass(G.edges[uvk]))
                 /\ err = "None"
                 /\ HasTravelTime(G, uvk)

\* "30 km/h" on one edge gave 1000 m / 30 km/h = 120 s; "bad" on an edge of
\* highway ["primary", "residential"] gave 1000 m / 50 km/h = 72 s
C8_Witness ==
    /\ pc = "done"
    /\ \E e \in Edges(G) :
        /\ G.edges[e] = ("travel_time" :> RatInt(120)) @@ PostedData
    /\ \E e \in Edges(G) :
        /\ DOMAIN G.edges[e] = {"length", "highway", "maxspeed", "travel_time"}
        /\ G.edges[e]["maxspeed"] = MsStr(SBad)
        /\ G.edges[e]["highway"] = HwList(<<"primary", "residential">>)
        /\ G.edges[e]["travel_time"] = RatInt(72)
    /\ JustResolved("str")

\* (length / 1000) / speed * 3600, as the statement writes it
SecondsFor(length, kmh) ==
    RatMul(RatDiv(RatDiv(RatInt(length), RatInt(1000)), RatInt(kmh)), RatInt(3600))

\* C9: once the annotator has run, an edge lacks travel_time iff its length
\* is 0 or absent; such an edge keeps its attributes; any other edge has
\* travel_time = (length / 1000) / speed * 3600 for its resolved speed and
\* keeps its other attributes (1000 m at 50 km/h: 72 s); the count reported
\* is the number of edges with length 0 or absent.
C9_AnnotatorPostcondition ==
    pc = "done" =>
        /\ \A e \in Edges(G) :
            LET before == osm.g.edges[e]
                after == G.edges[e]
            IN  /\ ~HasTravelTime(G, e) <=> Get(before, "length", 0) = 0
                /\ ~HasTravelTime(G, e) => after = before
                /\ HasTravelTime(G, e) =>
                    /\ after["travel_time"] = SecondsFor(before["length"], ResolveSpeed(before))
                    /\ DOMAIN after = DOMAIN before \cup {"travel_time"}
                    /\ \A k \in DOMAIN before : after[k] = before[k]
                    /\ (before["length"] = 1000 /\ ResolveSpeed(before) = 50) =>
                            after["travel_time"] = RatInt(72)
        /\ Cardinality(missing_travel_time) =
                Cardinality({e \in Edges(G) : LengthOf(osm.g, e) = 0})

C9_Witness ==
    /\ pc = "done"
    /\ Cardinality(missing_travel_time) = 1
    /\ \E e \in Edges(G) :
        /\ HasTravelTime(G, e)
        /\ G.edges[e]["travel_time"] = RatInt(72)
        /\ "maxspeed" \notin DOMAIN G.edges[e]

\* C10: on a strongly connected graph the reducer changes nothing: the graph
\* saved and annotated afterwards has the nodes and the edges of the
\* downloaded graph, and one component is reported.
C10_StronglyConnectedIsNoOp ==
    (osm.ok /\ osm.g.nodes # {} /\ EveryNodeReachesEveryNode(osm.g)
        /\ pc \notin {"download", "components"}) =>
        /\ Len(components) = 1
        /\ pc # "reduce" =>
            /\ G.nodes = osm.g.nodes
            /\ Edges(G) = Edges(osm.g)
            /\ pc = "save" => G = osm.g
            /\ graphml.exists => graphml.g = osm.g

C10_Witness ==
    /\ pc = "done"
    /\ Cardinality(osm.g.nodes) = 3
    /\ Cardinality(Edges(osm.g)) = 3
    /\ EveryNodeReachesEveryNode(osm.g)
    /\ graphml.g = osm.g

\* the rows of hospital_nodes the first k lookups account for
RECURSIVE ExpectedNodes(_)
ExpectedNodes(k) ==
    IF k = 0 THEN <<>>
    ELSE ExpectedNodes(k - 1) \o
            (IF ~lookups[k].raised /\ lookups[k].node \in LG.nodes
             THEN <<[name |-> hospitals_df[k].name,
                     latitude |-> hospitals_df[k].latitude,
                     longitude |-> hospitals_df[k].longitude,
                     node_id |-> lookups[k].node]>>
             ELSE <<>>)

\* the warnings and errors the first k lookups account for
RECURSIVE ExpectedSnapMessages(_)
ExpectedSnapMessages(k) ==
    IF k = 0 THEN <<>>
    ELSE ExpectedSnapMessages(k - 1) \o
            (IF lookups[k].raised
             THEN <<Msg("Error snapping hospital", hospitals_df[k].name)>>
             ELSE IF lookups[k].node \notin LG.nodes
             THEN <<Msg("Warning: maps to node outside graph", hospitals_df[k].name)>>
             ELSE <<>>)

IsSnapMessage(m) ==
    m.msg \in {"Error snapping hospital", "Warning: maps to node outside graph"}

SnapLoopOver ==
    \/ lpc \in {"validate", "done"}
    \/ lpc = "exit" /\ stdout[Len(stdout)].msg = "No hospitals could be snapped to the graph."

\* C6: a hospital whose lookup returns a node outside the graph is left out
\* with one warning, one whose lookup raises is logged and left out, and the
\* loop goes on: the snapped list holds, in order, exactly the hospitals
\* whose lookup returned a node of the graph, each with that node.
C6_SnapperIsolatesFailures ==
    /\ Len(lookups) <= Len(hospitals_df)
    /\ hospital_nodes = ExpectedNodes(Len(lookups))
    /\ SelectSeq(stdout, IsSnapMessage) = ExpectedSnapMessages(Len(lookups))
    /\ \A i \in 1..Len(hospital_nodes) : hospital_nodes[i].node_id \in LG.nodes
    /\ SnapLoopOver => Len(lookups) = Len(hospitals_df)

C6_Witness ==
    /\ lpc = "done"
    /\ Len(lookups) = 2
    /\ ~lookups[1].raised
    /\ lookups[1].node \notin LG.nodes
    /\ Len(hospital_nodes) = 1
    /\ Len(SelectSeq(stdout, IsSnapMessage)) = 1

\* the messages that report the failure of a step, and the files each step
\* finds written when it starts
StepFailures ==
    {"Error fetching hospital data", "No hospitals found.", "Error loading graph",
     "No hospitals could be snapped to the graph."}

WrittenBefore(text) ==
    IF text \in {"Error fetching hospital data", "No hospitals found."}
    THEN {}
    ELSE {"marikina_hospitals.csv"}

\* C7: a failed fetch, an empty hospital list, a graph file that cannot be
\* loaded and an empty snapped list are each reported and end the run at
\* that step: nothing is printed or written afterwards; a failure of one
\* lookup of the snapping loop does not end the run.
C7_StepFailureEndsRun ==
    /\ \A i \in 1..Len(stdout) :
            stdout[i].msg \in StepFailures =>
                /\ i = Len(stdout)
                /\ lpc = "exit"
                /\ outputs = WrittenBefore(stdout[i].msg)
    /\ lpc = "exit" => stdout # <<>> /\ stdout[Len(stdout)].msg \in StepFailures
    /\ (lpc # "fetch" /\ ~overpass.ok) => lpc = "exit"
    /\ (lpc \notin {"fetch", "parse"} /\ hospitals_df = <<>>) => lpc = "exit"
    /\ (lpc \notin {"fetch", "parse", "load"} /\ ~graphml.exists) => lpc = "exit"
    /\ (lpc \in {"validate", "done"}) => hospital_nodes # <<>>
    /\ lpc = "done" =>
            outputs = {"marikina_hospitals.csv", "marikina_hospital_nodes.csv",
                       "marikina_hospitals_plot.png"}

C7_Witness ==
    /\ lpc = "exit"
    /\ stdout[Len(stdout)].msg = "No hospitals could be snapped to the graph."
    /\ Len(lookups) = 2
    /\ outputs = {"marikina_hospitals.csv"}

====
